---- MODULE Spec2Model ----
(***************************************************************************)
(* A model of record.cpp: command line parsing, device configuration,      *)
(* frame capture, the four-way polarization split and the four video       *)
(* recorders driven by RecordVideo, and the restoration of the device      *)
(* settings.                                                                *)
(*                                                                         *)
(* Three specifications share the variables:                               *)
(*   SpecArgs  main from its first line to the try block (lines 291-369);  *)
(*   Spec      the try block of main and RecordVideo (lines 151-284,       *)
(*             371-544), started with locals the parse can produce;        *)
(*   SpecInt   SetIntValue applied to one node and one requested value.    *)
(* SpecFair is Spec with the fairness of a running sequential program.     *)
(***************************************************************************)
EXTENDS Integers, Sequences, FiniteSets, TLC

(***************************************************************************)
(* Bounds of the model.                                                    *)
(***************************************************************************)
\* most frames a run captures (numImages)
MaxImages == 2
\* largest filled size (bytes) a captured frame reports
MaxFill == 9
\* width in bits of uint32_t in the model (the code's is 32)
UInt32Bits == 6
\* width in bits of size_t in the model (the code's is 64)
SizeBits == 8
\* most command line arguments after argv[0]
MaxArgs == 3
\* largest span (max - min) of the integer node SetIntValue is probed with
MaxSpan == 5

(***************************************************************************)
(* Program constants.                                                      *)
(***************************************************************************)
WIDTH == 2448
HEIGHT == 2048
FRAMES_PER_SECOND == 10
NUM_IMAGES == 50

UInt32Mod == 2 ^ UInt32Bits
SizeMod == 2 ^ SizeBits

VARIABLES
    pc,              \* position of main / RecordVideo
    argv, argi,      \* argv[1..argc-1] and the parse loop's index
    width, height, numImages, fps,   \* main's locals (lines 299-302)
    exceptionThrown, \* line 294
    exc,             \* the call whose exception is in flight or was caught
    ret,             \* <<>>, and <<code>> once main has returned code
    pSystem,         \* "null", "open" or "closed"
    dev,             \* the device's node values
    streaming,       \* between StartStream and StopStream
    saved,           \* the *Initial locals (lines 392-396)
    changed,         \* a node of the device has been set by this run
    images, capI,    \* the captured frames and the capture loop's index
    i, idx, bufferIndex, buffer_size, out,  \* RecordVideo's loop locals
    k,               \* the recorder the next Open/AppendImage/Close is for
    streams,         \* state of the four video recorders
    appended,        \* what each recorder has been given, in order
    probe            \* SpecInt: the node, the request and the result

argVars == <<argv, argi>>
mainVars == <<width, height, numImages, fps>>
devVars == <<pSystem, dev, streaming, saved, changed>>
capVars == <<images, capI>>
loopVars == <<i, idx, bufferIndex, buffer_size, out>>
recVars == <<k, streams, appended>>
vars == <<pc, argv, argi, width, height, numImages, fps, exceptionThrown, exc,
          ret, pSystem, dev, streaming, saved, changed, images, capI, i, idx,
          bufferIndex, buffer_size, out, k, streams, appended, probe>>

(***************************************************************************)
(* Integer helpers.                                                        *)
(***************************************************************************)
\* C++ integer division truncates toward zero; b > 0 here
CDiv(a, b) == IF a >= 0 THEN a \div b ELSE -((-a) \div b)

\* conversion of a long to uint32_t
ToUInt32(x) == x % UInt32Mod

(***************************************************************************)
(* SetIntValue and SetFloatValue (lines 86-142).                           *)
(***************************************************************************)
SetIntValue(node, value) ==
    LET v1 == (CDiv(value - node.min, node.inc) * node.inc) + node.min
        v2 == IF v1 < node.min THEN node.min ELSE v1
        v3 == IF v2 > node.max THEN node.max ELSE v2
    IN  v3

SetFloatValue(node, value) ==
    LET v1 == IF value < node.min THEN node.min ELSE value
        v2 == IF v1 > node.max THEN node.max ELSE v1
    IN  v2

(***************************************************************************)
(* The command line (lines 304-345).  An argument is the tuple of its      *)
(* characters, so that strtol and strtof are computed, not assumed.        *)
(***************************************************************************)
OptW == <<"-", "w">>
OptH == <<"-", "h">>
OptN == <<"-", "n">>
OptFps == <<"-", "f", "p", "s">>
OptHelp == <<"-", "-", "h", "e", "l", "p">>

Tokens == {OptW, OptH, OptN, OptFps, OptHelp,
           <<"0">>, <<"3">>, <<"-", "2">>, <<"7", "x">>}

DigitVal == ("0" :> 0) @@ ("1" :> 1) @@ ("2" :> 2) @@ ("3" :> 3) @@ ("4" :> 4)
            @@ ("5" :> 5) @@ ("6" :> 6) @@ ("7" :> 7) @@ ("8" :> 8) @@ ("9" :> 9)

\* the value of the longest run of decimal digits of tok that starts at p
RECURSIVE Digits(_, _, _)
Digits(tok, p, acc) ==
    IF p > Len(tok) \/ tok[p] \notin DOMAIN DigitVal
    THEN acc
    ELSE Digits(tok, p + 1, (10 * acc) + DigitVal[tok[p]])

\* strtol(tok, NULL, 10): optional sign, then digits; 0 when there are none
StrToL(tok) ==
    IF Len(tok) >= 1 /\ tok[1] = "-" THEN -Digits(tok, 2, 0)
    ELSE IF Len(tok) >= 1 /\ tok[1] = "+" THEN Digits(tok, 2, 0)
    ELSE Digits(tok, 1, 0)

\* strtof(tok, NULL) on an argument without fraction or exponent
StrToF(tok) == StrToL(tok)

\* strcmp(argv[i], opt) == 0 && i + 1 < argc
OptionWithValue(opt) ==
    /\ argi <= Len(argv)
    /\ argv[argi] = opt
    /\ argi + 1 <= Len(argv)

\* line 322
FpsRejected(f) == f <= 0

\* only a command line with both dimensions zero is rejected
InvalidDimensionsBoth(w, h) == h = 0 /\ w = 0

\* line 341
InvalidDimensions(w, h) == h = 0 \/ w = 0

Return(code) ==
    /\ ret' = <<code>>
    /\ pc' = "done"

ParseWidth ==
    /\ pc = "parse"
    /\ OptionWithValue(OptW)
    /\ width' = StrToL(argv[argi + 1])
    /\ argi' = argi + 2
    /\ UNCHANGED <<pc, argv, height, numImages, fps, exceptionThrown, exc, ret,
                   devVars, capVars, loopVars, recVars, probe>>

ParseHeight ==
    /\ pc = "parse"
    /\ OptionWithValue(OptH)
    /\ height' = StrToL(argv[argi + 1])
    /\ argi' = argi + 2
    /\ UNCHANGED <<pc, argv, width, numImages, fps, exceptionThrown, exc, ret,
                   devVars, capVars, loopVars, recVars, probe>>

ParseNumImages ==
    /\ pc = "parse"
    /\ OptionWithValue(OptN)
    /\ numImages' = ToUInt32(StrToL(argv[argi + 1]))
    /\ argi' = argi + 2
    /\ UNCHANGED <<pc, argv, width, height, fps, exceptionThrown, exc, ret,
                   devVars, capVars, loopVars, recVars, probe>>

ParseFps ==
    /\ pc = "parse"
    /\ OptionWithValue(OptFps)
    /\ fps' = StrToF(argv[argi + 1])
    /\ IF FpsRejected(fps')
       THEN /\ Return(-1)
            /\ argi' = argi + 1
       ELSE /\ argi' = argi + 2
            /\ UNCHANGED <<pc, ret>>
    /\ UNCHANGED <<argv, width, height, numImages, exceptionThrown, exc,
                   devVars, capVars, loopVars, recVars, probe>>

ParseHelp ==
    /\ pc = "parse"
    /\ argi <= Len(argv)
    /\ ~ \E opt \in {OptW, OptH, OptN, OptFps} : OptionWithValue(opt)
    /\ argv[argi] = OptHelp
    /\ Return(0)
    /\ UNCHANGED <<argVars, mainVars, exceptionThrown, exc,
                   devVars, capVars, loopVars, recVars, probe>>

ParseInvalid ==
    /\ pc = "parse"
    /\ argi <= Len(argv)
    /\ ~ \E opt \in {OptW, OptH, OptN, OptFps} : OptionWithValue(opt)
    /\ argv[argi] # OptHelp
    /\ Return(-1)
    /\ UNCHANGED <<argVars, mainVars, exceptionThrown, exc,
                   devVars, capVars, loopVars, recVars, probe>>

RejectDimensions ==
    /\ pc = "parse"
    /\ argi > Len(argv)
    /\ InvalidDimensions(width, height)
    /\ Return(-1)
    /\ UNCHANGED <<argVars, mainVars, exceptionThrown, exc,
                   devVars, capVars, loopVars, recVars, probe>>

AcceptDimensions ==
    /\ pc = "parse"
    /\ argi > Len(argv)
    /\ ~ InvalidDimensions(width, height)
    /\ pc' = "prompt"
    /\ UNCHANGED <<argVars, mainVars, exceptionThrown, exc, ret,
                   devVars, capVars, loopVars, recVars, probe>>

\* lines 354-369, the answer is 'y'
PromptYes ==
    /\ pc = "prompt"
    /\ pc' = "try"
    /\ UNCHANGED <<argVars, mainVars, exceptionThrown, exc, ret,
                   devVars, capVars, loopVars, recVars, probe>>

\* lines 354-369, any other answer
PromptNo ==
    /\ pc = "prompt"
    /\ Return(-1)
    /\ UNCHANGED <<argVars, mainVars, exceptionThrown, exc,
                   devVars, capVars, loopVars, recVars, probe>>

(***************************************************************************)
(* The device: its nodes and the frames it delivers.                       *)
(***************************************************************************)
WidthNode == [min |-> 1, max |-> 2, inc |-> 1]
HeightNode == [min |-> 1, max |-> 2, inc |-> 1]
RateNode == [min |-> 1, max |-> 5]

Recorders == 0 .. 3

Byte == 2 ^ 8

\* the bytes of the frame captured j-th with s bytes filled: every position of
\* a frame and every frame of a run differ, group k holding the four angles
\* 10+k, 20+k, 30+k, 40+k for the first frame
FrameData(j, s) ==
    [p \in 1 .. s |-> (10 + (64 * j) + (10 * ((p - 1) % 4)) + ((p - 1) \div 4)) % Byte]

\* what new uint8_t[n] may hold
GarbageBytes == {0, 205}

NoSaved == [mode |-> "", fre |-> TRUE, rate |-> 0, w |-> 0, h |-> 0]

(***************************************************************************)
(* The try block of main (lines 371-531).                                  *)
(***************************************************************************)
\* an exception leaves the try block for its handlers (lines 517-531)
Throw(call) ==
    /\ exceptionThrown' = TRUE
    /\ exc' = call
    /\ pc' = "epilogue"

\* lines 374-382: no device is found
NoCamera ==
    /\ pc = "try"
    /\ pSystem' = "open"
    /\ Return(0)
    /\ UNCHANGED <<argVars, mainVars, exceptionThrown, exc, dev, streaming,
                   saved, changed, capVars, loopVars, recVars, probe>>

\* lines 374-388: a device is found, numImages is 0
NoImages ==
    /\ pc = "try"
    /\ numImages = 0
    /\ pSystem' = "open"
    /\ Return(0)
    /\ UNCHANGED <<argVars, mainVars, exceptionThrown, exc, dev, streaming,
                   saved, changed, capVars, loopVars, recVars, probe>>

\* lines 374-389
CreateDevice ==
    /\ pc = "try"
    /\ numImages # 0
    /\ pSystem' = "open"
    /\ pc' = "store"
    /\ UNCHANGED <<argVars, mainVars, exceptionThrown, exc, ret, dev, streaming,
                   saved, changed, capVars, loopVars, recVars, probe>>

\* lines 391-414
StoreInitial ==
    /\ pc = "store"
    /\ saved' = [mode |-> dev.mode,
                 fre |-> dev.fre,
                 rate |-> IF dev.fre THEN dev.rate ELSE NoSaved.rate,
                 w |-> dev.w,
                 h |-> dev.h]
    /\ pc' = "configure"
    /\ UNCHANGED <<argVars, mainVars, exceptionThrown, exc, ret, pSystem, dev,
                   streaming, changed, capVars, loopVars, recVars, probe>>

\* lines 417-460
Configure ==
    /\ pc = "configure"
    /\ width' = SetIntValue(WidthNode, width)
    /\ height' = SetIntValue(HeightNode, height)
    /\ fps' = SetFloatValue(RateNode, fps)
    /\ dev' = [mode |-> "Continuous",
               pf |-> "PolarizedAngles_0d_45d_90d_135d_Mono8",
               w |-> width',
               h |-> height',
               fre |-> TRUE,
               rate |-> fps']
    /\ changed' = TRUE
    /\ pc' = "start"
    /\ UNCHANGED <<argVars, numImages, exceptionThrown, exc, ret, pSystem,
                   streaming, saved, capVars, loopVars, recVars, probe>>

\* line 462
StartStream ==
    /\ pc = "start"
    /\ streaming' = TRUE
    /\ capI' = 0
    /\ pc' = "capture"
    /\ UNCHANGED <<argVars, mainVars, exceptionThrown, exc, ret, pSystem, dev,
                   saved, changed, images, loopVars, recVars, probe>>

\* lines 465-483: one frame arrives within the timeout and is copied
GetImageOk ==
    /\ pc = "capture"
    /\ capI < numImages
    /\ \E s \in 0 .. MaxFill :
          images' = Append(images, [w |-> dev.w, h |-> dev.h, s |-> s,
                                    data |-> FrameData(capI, s)])
    /\ capI' = capI + 1
    /\ UNCHANGED <<pc, argVars, mainVars, exceptionThrown, exc, ret, devVars,
                   loopVars, recVars, probe>>

\* the failed grab is swallowed and the capture loop goes on to the next frame
GetImageFailSkipped ==
    /\ pc = "capture"
    /\ capI < numImages
    /\ exc' = "GetImage"
    /\ capI' = capI + 1
    /\ UNCHANGED <<pc, argVars, mainVars, exceptionThrown, ret, devVars, images,
                   loopVars, recVars, probe>>

\* line 475: GetImage times out or fails
GetImageFail ==
    /\ pc = "capture"
    /\ capI < numImages
    /\ Throw("GetImage")
    /\ UNCHANGED <<argVars, mainVars, ret, devVars, capVars, loopVars, recVars,
                   probe>>

\* line 484
StopStream ==
    /\ pc = "capture"
    /\ ~ (capI < numImages)
    /\ streaming' = FALSE
    /\ pc' = "record"
    /\ UNCHANGED <<argVars, mainVars, exceptionThrown, exc, ret, pSystem, dev,
                   saved, changed, capVars, loopVars, recVars, probe>>

\* lines 492-515: destroy the images, restore the settings, close the system
Restore ==
    /\ pc = "restore"
    /\ images' = <<>>
    /\ dev' = [dev EXCEPT
                 !.w = SetIntValue(WidthNode, saved.w),
                 !.h = SetIntValue(HeightNode, saved.h),
                 !.mode = saved.mode,
                 !.fre = saved.fre,
                 !.rate = IF saved.fre THEN SetFloatValue(RateNode, saved.rate)
                          ELSE dev.rate]
    /\ pSystem' = "closed"
    /\ pc' = "epilogue"
    /\ UNCHANGED <<argVars, mainVars, exceptionThrown, exc, ret, streaming,
                   saved, changed, capI, loopVars, recVars, probe>>

\* lines 533-544
Epilogue ==
    /\ pc = "epilogue"
    /\ Return(IF exceptionThrown THEN -1 ELSE 0)
    /\ UNCHANGED <<argVars, mainVars, exceptionThrown, exc, devVars, capVars,
                   loopVars, recVars, probe>>

(***************************************************************************)
(* RecordVideo (lines 151-284).                                            *)
(***************************************************************************)
\* line 246: size_t buffer_size = GetSizeFilled() - 1
BufferSize(s) == (s - 1) % SizeMod

\* line 250: i < buffer_size, a uint32_t against a size_t
LoopCond(ix, bs) == ix < bs

\* line 250: i += 4 on a uint32_t
NextIdx(ix) == (ix + 4) % UInt32Mod

\* the channels take the bytes of a group in the wrong order
SourceIndexRotated(ix, c) == ix + ((c + 1) % 4)

\* lines 253-262: the source byte that goes to channel c in the iteration at ix
SourceIndex(ix, c) == ix + c

\* the frame loop steps over a frame
NextFrameSkipping(n) == n + 2

\* line 218: i++
NextFrame(n) == n + 1

\* the append loop is entered with the fourth recorder not opened
AllOpenedEarly(n) == n = 2

\* lines 207-213: videoRecorder_135, the fourth, is the last to open
AllOpened(n) == n = 3

\* ImageFactory::Convert(Mono8 -> RGB8): each sample becomes three equal bytes
Convert(buf) == [p \in 1 .. (3 * Len(buf)) |-> buf[((p - 1) \div 3) + 1]]

\* lines 232-242: srcWidth * srcHeight in uint32_t
PixelCount(f) == ToUInt32(ToUInt32(f.w) * ToUInt32(f.h))

\* the frame the loop at line 218 is working on
Cur == images[i + 1]

\* lines 154-201: parameters and recorders are prepared
RecordVideoEnter ==
    /\ pc = "record"
    /\ k' = 0
    /\ pc' = "open"
    /\ UNCHANGED <<argVars, mainVars, exceptionThrown, exc, ret, devVars,
                   capVars, loopVars, streams, appended, probe>>

\* lines 207-213: the next recorder opens
OpenOk ==
    /\ pc = "open"
    /\ streams' = [streams EXCEPT ![k] = "Open"]
    /\ IF AllOpened(k)
       THEN /\ pc' = "loop"
            /\ k' = 0
            /\ i' = 0
       ELSE /\ k' = k + 1
            /\ UNCHANGED <<pc, i>>
    /\ UNCHANGED <<argVars, mainVars, exceptionThrown, exc, ret, devVars,
                   capVars, idx, bufferIndex, buffer_size, out, appended, probe>>

\* lines 207-213: Open throws; RecordVideo is left by the exception
OpenFail ==
    /\ pc = "open"
    /\ Throw("Open")
    /\ UNCHANGED <<argVars, mainVars, ret, devVars, capVars, loopVars, recVars,
                   probe>>

\* lines 218-248: the buffers of one frame are created
FrameBegin ==
    /\ pc = "loop"
    /\ i < Len(images)
    /\ \E g \in GarbageBytes :
          out' = [c \in Recorders |-> [p \in 1 .. PixelCount(Cur) |-> g]]
    /\ buffer_size' = BufferSize(Cur.s)
    /\ bufferIndex' = 0
    /\ idx' = 0
    /\ pc' = "split"
    /\ UNCHANGED <<argVars, mainVars, exceptionThrown, exc, ret, devVars,
                   capVars, i, recVars, probe>>

\* every access of the iteration at idx stays inside its buffer
ReadInBounds == \A c \in Recorders : SourceIndex(idx, c) < Cur.s
WriteInBounds == bufferIndex < Len(out[0])

\* lines 250-265: one iteration, all accesses inside the buffers
SplitStep ==
    /\ pc = "split"
    /\ LoopCond(idx, buffer_size)
    /\ ReadInBounds /\ WriteInBounds
    /\ out' = [c \in Recorders |->
                 [out[c] EXCEPT ![bufferIndex + 1] = Cur.data[SourceIndex(idx, c) + 1]]]
    /\ bufferIndex' = ToUInt32(bufferIndex + 1)
    /\ idx' = NextIdx(idx)
    /\ UNCHANGED <<pc, argVars, mainVars, exceptionThrown, exc, ret, devVars,
                   capVars, i, buffer_size, recVars, probe>>

\* lines 250-265: one iteration that reads past the filled bytes or writes past
\* the channel buffers: the read yields any byte, the write lands outside the
\* buffers, and the loop goes on
SplitStepOutside ==
    /\ pc = "split"
    /\ LoopCond(idx, buffer_size)
    /\ ~ (ReadInBounds /\ WriteInBounds)
    /\ \E g \in GarbageBytes :
          out' = IF WriteInBounds
                 THEN [c \in Recorders |->
                         [out[c] EXCEPT ![bufferIndex + 1] =
                            IF SourceIndex(idx, c) < Cur.s
                            THEN Cur.data[SourceIndex(idx, c) + 1]
                            ELSE g]]
                 ELSE out
    /\ bufferIndex' = ToUInt32(bufferIndex + 1)
    /\ idx' = NextIdx(idx)
    /\ UNCHANGED <<pc, argVars, mainVars, exceptionThrown, exc, ret, devVars,
                   capVars, i, buffer_size, recVars, probe>>

\* lines 250-265: the same iteration, ended by the operating system
SplitStepCrash ==
    /\ pc = "split"
    /\ LoopCond(idx, buffer_size)
    /\ ~ (ReadInBounds /\ WriteInBounds)
    /\ pc' = "crashed"
    /\ UNCHANGED <<argVars, mainVars, exceptionThrown, exc, ret, devVars,
                   capVars, loopVars, recVars, probe>>

\* line 250: the condition is false
SplitExit ==
    /\ pc = "split"
    /\ ~ LoopCond(idx, buffer_size)
    /\ k' = 0
    /\ pc' = "append"
    /\ UNCHANGED <<argVars, mainVars, exceptionThrown, exc, ret, devVars,
                   capVars, loopVars, streams, appended, probe>>

\* lines 268-271: the next recorder is given its channel of the frame
AppendOk ==
    /\ pc = "append"
    /\ appended' = [appended EXCEPT
                      ![k] = Append(@, [frame |-> i, data |-> Convert(out[k])])]
    /\ IF k = 3
       THEN /\ k' = 0
            /\ i' = NextFrame(i)
            /\ pc' = "loop"
       ELSE /\ k' = k + 1
            /\ UNCHANGED <<pc, i>>
    /\ UNCHANGED <<argVars, mainVars, exceptionThrown, exc, ret, devVars,
                   capVars, idx, bufferIndex, buffer_size, out, streams, probe>>

\* lines 268-271: Convert or AppendImage throws
AppendFail ==
    /\ pc = "append"
    /\ Throw("AppendImage")
    /\ UNCHANGED <<argVars, mainVars, ret, devVars, capVars, loopVars, recVars,
                   probe>>

\* line 218: all frames are done
LoopExit ==
    /\ pc = "loop"
    /\ ~ (i < Len(images))
    /\ k' = 0
    /\ pc' = "close"
    /\ UNCHANGED <<argVars, mainVars, exceptionThrown, exc, ret, devVars,
                   capVars, loopVars, streams, appended, probe>>

\* lines 278-281: the next recorder closes
CloseOk ==
    /\ pc = "close"
    /\ streams' = [streams EXCEPT ![k] = "Closed"]
    /\ IF k = 3
       THEN /\ pc' = "restore"
            /\ k' = 0
       ELSE /\ k' = k + 1
            /\ UNCHANGED pc
    /\ UNCHANGED <<argVars, mainVars, exceptionThrown, exc, ret, devVars,
                   capVars, loopVars, appended, probe>>

\* lines 278-281: Close throws
CloseFail ==
    /\ pc = "close"
    /\ Throw("Close")
    /\ UNCHANGED <<argVars, mainVars, ret, devVars, capVars, loopVars, recVars,
                   probe>>

(***************************************************************************)
(* SetIntValue on its own (lines 86-114).                                  *)
(***************************************************************************)
ApplySetIntValue ==
    /\ pc = "probe"
    /\ probe' = [probe EXCEPT !.r = SetIntValue(probe.node, probe.v), !.set = TRUE]
    /\ pc' = "probed"
    /\ UNCHANGED <<argVars, mainVars, exceptionThrown, exc, ret, devVars,
                   capVars, loopVars, recVars>>

(***************************************************************************)
(* Specifications.                                                         *)
(***************************************************************************)
NoProbe == [node |-> [min |-> 0, max |-> 0, inc |-> 1], v |-> 0, r |-> 0, set |-> FALSE]

\* the part of the state an execution starts with, whatever is run
InitCommon ==
    /\ exceptionThrown = FALSE
    /\ exc = "none"
    /\ ret = <<>>
    /\ pSystem = "null"
    /\ streaming = FALSE
    /\ saved = NoSaved
    /\ changed = FALSE
    /\ images = <<>>
    /\ capI = 0
    /\ i = 0
    /\ idx = 0
    /\ bufferIndex = 0
    /\ buffer_size = 0
    /\ out = [c \in Recorders |-> <<>>]
    /\ k = 0
    /\ streams = [c \in Recorders |-> "Unopened"]
    /\ appended = [c \in Recorders |-> <<>>]

InitDevice ==
    \E fre \in BOOLEAN :
        dev = [mode |-> "SingleFrame", pf |-> "Mono8", w |-> 2, h |-> 2,
               fre |-> fre, rate |-> 2]

\* main at the try block, with locals the command line can give
Init ==
    /\ InitCommon
    /\ InitDevice
    /\ pc = "try"
    /\ argv = <<>>
    /\ argi = 1
    /\ width \in {-2, WIDTH}
    /\ height \in {-2}
    /\ numImages \in 0 .. MaxImages
    /\ fps = FRAMES_PER_SECOND
    /\ probe = NoProbe

Next ==
    \/ NoCamera \/ NoImages \/ CreateDevice \/ StoreInitial \/ Configure
    \/ StartStream \/ GetImageOk \/ GetImageFail \/ StopStream
    \/ RecordVideoEnter \/ OpenOk \/ OpenFail
    \/ FrameBegin \/ SplitStep \/ SplitStepOutside \/ SplitStepCrash \/ SplitExit
    \/ AppendOk \/ AppendFail \/ LoopExit \/ CloseOk \/ CloseFail
    \/ Restore \/ Epilogue

Spec == Init /\ [][Next]_vars

\* a running sequential program takes its next step
SpecFair == Spec /\ WF_vars(Next)

\* main at its first line
InitArgs ==
    /\ InitCommon
    /\ InitDevice
    /\ pc = "parse"
    /\ argv \in UNION {[1 .. n -> Tokens] : n \in 0 .. MaxArgs}
    /\ argi = 1
    /\ width = WIDTH
    /\ height = HEIGHT
    /\ numImages = NUM_IMAGES
    /\ fps = FRAMES_PER_SECOND
    /\ probe = NoProbe

NextArgs ==
    \/ ParseWidth \/ ParseHeight \/ ParseNumImages \/ ParseFps
    \/ ParseHelp \/ ParseInvalid \/ RejectDimensions \/ AcceptDimensions
    \/ PromptYes \/ PromptNo

SpecArgs == InitArgs /\ [][NextArgs]_vars

\* one node and one requested value
InitInt ==
    /\ InitCommon
    /\ InitDevice
    /\ pc = "probe"
    /\ argv = <<>>
    /\ argi = 1
    /\ width = WIDTH
    /\ height = HEIGHT
    /\ numImages = NUM_IMAGES
    /\ fps = FRAMES_PER_SECOND
    /\ \E lo \in -2 .. 2, span \in 0 .. MaxSpan, step \in 1 .. 3,
          v \in -(2 * MaxSpan) .. (2 * MaxSpan) :
          probe = [node |-> [min |-> lo, max |-> lo + span, inc |-> step],
                   v |-> v, r |-> 0, set |-> FALSE]

NextInt == ApplySetIntValue

SpecInt == InitInt /\ [][NextInt]_vars

(***************************************************************************)
(* Properties.                                                             *)
(***************************************************************************)
\* the frame is filled with exactly four bytes per pixel
FullFrame(f) == f.s = 4 * f.w * f.h

\* the samples of angle c of a full frame, in pixel order
Stride(f, c) == [n \in 1 .. (f.w * f.h) |-> f.data[(4 * (n - 1)) + c + 1]]

\* C1: after the split loop of a frame filled with w*h*4 bytes, channel c holds
\* at every k in 0..w*h-1 the source byte 4k+c (c = 0,1,2,3 for 0, 45, 90, 135)
SplitIsDemux ==
    (pc = "append" /\ FullFrame(Cur)) =>
        \A c \in Recorders :
            /\ Len(out[c]) = Cur.w * Cur.h
            /\ \A n \in 0 .. ((Cur.w * Cur.h) - 1) :
                  out[c][n + 1] = Cur.data[(4 * n) + c + 1]

\* the scenario of the specification: [10,20,30,40,11,21,31,41] has been split
SplitScenarioReached ==
    /\ pc = "append"
    /\ Cur.data = <<10, 20, 30, 40, 11, 21, 31, 41>>
    /\ Cur.w * Cur.h = 2
    /\ out = [c \in Recorders |-> <<(10 * (c + 1)), (10 * (c + 1)) + 1>>]

\* C2: the recorders are fed in lockstep: their counts never differ by more
\* than one, are all equal to the number of frames done at the end of every
\* iteration and to N when the loop is over, and the j-th append of every
\* recorder comes from the j-th captured frame
AppendsInLockstep ==
    /\ \A c, d \in Recorders :
          Len(appended[c]) - Len(appended[d]) \in {-1, 0, 1}
    /\ pc = "loop" => \A c \in Recorders : Len(appended[c]) = i
    /\ pc \in {"close", "restore"} =>
          \A c \in Recorders : Len(appended[c]) = Len(images)
    /\ \A c \in Recorders : \A j \in 1 .. Len(appended[c]) :
          /\ appended[c][j].frame = j - 1
          /\ (j <= Len(images) /\ FullFrame(images[j])) =>
                appended[c][j].data = Convert(Stride(images[j], c))

\* two frames went to all four recorders and RecordVideo returned
TwoFramesRecorded ==
    /\ pc = "restore"
    /\ Len(images) = 2
    /\ \A c \in Recorders : Len(appended[c]) = 2

\* C3: once main has returned after changing the device settings, the five
\* settings hold the values saved at the start, whatever ended the session
SettingsRestoredOnExit ==
    (pc = "done" /\ changed) =>
        /\ dev.mode = saved.mode
        /\ dev.fre = saved.fre
        /\ dev.w = saved.w
        /\ dev.h = saved.h
        /\ saved.fre => dev.rate = saved.rate

\* C4: when RecordVideo has ended, by returning or by a failed Open or
\* AppendImage, no recorder is still open
NoStreamLeftOpen ==
    (\/ pc = "restore"
     \/ pc \in {"epilogue", "done"} /\ exc \in {"Open", "AppendImage"}) =>
        \A c \in Recorders : streams[c] # "Open"

\* C5: a recorder only goes Unopened -> Open -> Closed, it is given a frame
\* only while Open, and no recorder is given a frame before all four are open
StreamLifecycle ==
    /\ [][\A c \in Recorders :
            /\ streams'[c] # streams[c] =>
                  <<streams[c], streams'[c]>> \in
                      {<<"Unopened", "Open">>, <<"Open", "Closed">>}
            /\ appended'[c] # appended[c] =>
                  /\ streams[c] = "Open"
                  /\ streams'[c] = "Open"
                  /\ \A d \in Recorders : streams[d] = "Open"]_vars
    /\ [](\A c \in Recorders :
            appended[c] # <<>> => streams[c] \in {"Open", "Closed"})

\* all four recorders are closed after having been given a frame each
AllClosedAfterAppends ==
    \A c \in Recorders : streams[c] = "Closed" /\ Len(appended[c]) >= 1

\* C6: after a failed frame grab the session is over and no recorder was ever
\* opened, given a frame or closed
CaptureFailureOpensNothing ==
    exc = "GetImage" =>
        /\ pc \in {"epilogue", "done"}
        /\ \A c \in Recorders : streams[c] = "Unopened" /\ appended[c] = <<>>

\* the second grab failed and main returned -1
SecondGrabFailed ==
    /\ exc = "GetImage"
    /\ capI = 1
    /\ Len(images) = 1
    /\ pc = "done"
    /\ ret = <<-1>>

\* the command line has asked for a zero width, a zero height or a frame rate
\* that is not positive
ZeroOrNegativeRequest == width = 0 \/ height = 0 \/ fps <= 0

NoDeviceInteraction ==
    /\ pc \notin {"prompt", "try"}
    /\ pSystem = "null"
    /\ ~ streaming
    /\ ~ changed
    /\ saved = NoSaved

SplitStaysInBounds ==
    (pc = "split" /\ LoopCond(idx, buffer_size)) =>
        /\ SourceIndex(idx, 3) < Cur.s
        /\ bufferIndex < PixelCount(Cur)

\* C9: the split loop of every frame comes to an end: its condition becomes
\* false and RecordVideo goes on to the appends (a run that the operating
\* system ends inside the loop is not held against the claim here)
SplitLoopTerminates == (pc = "split") ~> (pc \in {"append", "crashed"})

\* C10: SetIntValue returns a value in [min, max] on the node's increment
\* grid, and for a request v in range a value r with v - inc < r <= v
SetIntValueOnGrid ==
    probe.set =>
        LET n == probe.node
            r == probe.r
        IN  /\ n.min <= r
            /\ r <= n.max
            /\ (r - n.min) % n.inc = 0
            /\ (n.min <= probe.v /\ probe.v <= n.max) =>
                  (probe.v - n.inc < r /\ r <= probe.v)

====
